---- MODULE Spec2Model ----
(***************************************************************************)
(* Model of lmsapp/static/js/script.js: the showAlert helper, the          *)
(* DOMContentLoaded listener that binds a click handler to #myButton, and  *)
(* validateForm.  The page (the document, the user and other callers of    *)
(* the two global functions) is the environment.  JavaScript runs one      *)
(* handler at a time to completion, and alert() keeps its caller's frame   *)
(* on the stack until the user dismisses the dialog.                       *)
(***************************************************************************)
EXTENDS Naturals, Sequences, FiniteSets

\* Bounds of the model.
MaxCalls == 3

\* Texts the user can type into the 'username' field.
Values == {"", " ", "alice"}
\* Arguments other page code passes to the global showAlert.
Messages == {"", " hi ", "Button clicked!"}
\* Placeholder for "no argument / no local variable".
NoLocal == "-"

VARIABLES
    buttonPresent,   \* document.querySelector('#myButton') finds an element
    listeners,       \* click listeners attached to #myButton
    readyState,      \* outcome of the DOMContentLoaded listener
    foundAtReady,    \* whether #myButton existed when the ready signal fired
    usernamePresent, \* document.getElementById('username') finds an element
    usernameValue,   \* the .value of the 'username' field
    edited,          \* the user edited the field since validateForm last ran
    stack,           \* call stack of the running handler, bottom first
    pending,         \* click listeners still to run for the current click
    dialog,          \* <<text>> while an alert dialog is displayed, else <<>>
    calls            \* log of the top-level invocations, oldest first

vars == <<buttonPresent, listeners, readyState, foundAtReady, usernamePresent, usernameValue,
          edited, stack, pending, dialog, calls>>

Last(s) == s[Len(s)]
SetLast(s, e) == [s EXCEPT ![Len(s)] = e]

Frame(fn, local) == [fn |-> fn, local |-> local]

\* What a string's trim() yields, on the strings of the model.
Trim(s) == CASE s = " " -> "" [] s = " hi " -> "hi" [] OTHER -> s

\* A fresh log entry for an invocation that starts now.  The field is recorded
\* for validateForm calls and the ready signal for clicks.
Entry(fn, arg) ==
    [fn |-> fn, arg |-> arg,
     present |-> usernamePresent,
     fieldAtCall |-> IF fn = "validateForm" THEN usernameValue ELSE NoLocal,
     fieldAtReturn |-> IF fn = "validateForm" THEN usernameValue ELSE NoLocal,
     edited |-> fn = "validateForm" /\ edited,
     ready |-> fn = "click" /\ readyState # "unfired",
     overlapped |-> dialog # <<>>,
     result |-> "pending",
     issued |-> <<>>]

\* The log with its current (last) invocation completed with `value`.
Return(log, value) ==
    SetLast(log, [Last(log) EXCEPT
                    !.result = value,
                    !.fieldAtReturn = IF Last(log).fn = "validateForm"
                                      THEN usernameValue' ELSE @])

\* The notification alert(text) presents when called with `frames` on the stack.
Note(text, frames) ==
    [text |-> text,
     via |-> Last(frames).fn,
     passed |-> IF Last(frames).fn = "showAlert" THEN Last(frames).local ELSE text,
     acked |-> FALSE]

\* alert(text): the dialog opens and the calling frames stay on the stack.
alert(text, frames, log) ==
    /\ dialog' = <<text>>
    /\ stack' = frames
    /\ calls' = SetLast(log, [Last(log) EXCEPT
                                !.issued = Append(@, Note(text, frames))])

\* Faulty variant: showAlert trims its argument before presenting it.
showAlert_trim(message, frames, log) ==
    alert(Trim(message), Append(frames, Frame("showAlert", message)), log)

\* function showAlert(message) { alert(message); }
showAlert(message, frames, log) ==
    alert(message, Append(frames, Frame("showAlert", message)), log)

\* function() { showAlert('Button clicked!'); }
clickHandler(frames, log) ==
    showAlert("Button clicked!", Append(frames, Frame("click", NoLocal)), log)

Init ==
    /\ buttonPresent \in BOOLEAN
    /\ listeners = 0
    /\ readyState = "unfired"
    /\ foundAtReady = FALSE
    /\ usernamePresent \in BOOLEAN
    /\ usernameValue \in (IF usernamePresent THEN Values ELSE {""})
    /\ edited = FALSE
    /\ stack = <<>>
    /\ pending = 0
    /\ dialog = <<>>
    /\ calls = <<>>

\* Faulty variant: the click handler is attached twice.
DOMContentLoaded_twice ==
    /\ readyState = "unfired"
    /\ stack = <<>>
    /\ foundAtReady' = buttonPresent
    /\ readyState' = IF buttonPresent THEN "attached" ELSE "skipped"
    /\ listeners' = IF buttonPresent THEN listeners + 2 ELSE listeners
    /\ UNCHANGED <<buttonPresent, usernamePresent, usernameValue, edited, stack,
                   pending, dialog, calls>>

\* Faulty variant: no if (myButton) guard, so a missing button throws.
DOMContentLoaded_unguarded ==
    /\ readyState = "unfired"
    /\ stack = <<>>
    /\ foundAtReady' = buttonPresent
    /\ readyState' = IF buttonPresent THEN "attached" ELSE "TypeError"
    /\ listeners' = IF buttonPresent THEN listeners + 1 ELSE listeners
    /\ UNCHANGED <<buttonPresent, usernamePresent, usernameValue, edited, stack,
                   pending, dialog, calls>>

\* The ready signal fires, once: look #myButton up and, if found, attach the
\* click handler.
DOMContentLoaded ==
    /\ readyState = "unfired"
    /\ stack = <<>>
    /\ foundAtReady' = buttonPresent
    /\ readyState' = IF buttonPresent THEN "attached" ELSE "skipped"
    /\ listeners' = IF buttonPresent THEN listeners + 1 ELSE listeners
    /\ UNCHANGED <<buttonPresent, usernamePresent, usernameValue, edited, stack,
                   pending, dialog, calls>>

\* The page gains a #myButton element (before or after the ready signal).
InsertButton ==
    /\ ~buttonPresent
    /\ stack = <<>>
    /\ buttonPresent' = TRUE
    /\ UNCHANGED <<listeners, readyState, foundAtReady, usernamePresent, usernameValue, edited,
                   stack, pending, dialog, calls>>

\* The user clicks #myButton: its listeners run one after the other.
Click ==
    /\ buttonPresent
    /\ stack = <<>>
    /\ Len(calls) < MaxCalls
    /\ UNCHANGED <<buttonPresent, listeners, readyState, foundAtReady, usernamePresent,
                   usernameValue, edited>>
    /\ IF listeners = 0
       THEN /\ calls' = Return(Append(calls, Entry("click", NoLocal)), "undefined")
            /\ UNCHANGED <<stack, pending, dialog>>
       ELSE /\ clickHandler(<<>>, Append(calls, Entry("click", NoLocal)))
            /\ pending' = listeners - 1

\* Other page code calls the global showAlert(m).
ShowAlert ==
    \E m \in Messages :
        /\ stack = <<>>
        /\ Len(calls) < MaxCalls
        /\ showAlert(m, <<>>, Append(calls, Entry("showAlert", m)))
        /\ UNCHANGED <<buttonPresent, listeners, readyState, foundAtReady, usernamePresent,
                       usernameValue, edited, pending>>

\* The user types into the 'username' field.
EditUsername ==
    \E v \in Values :
        /\ usernamePresent
        /\ stack = <<>>
        /\ v # usernameValue
        /\ usernameValue' = v
        /\ edited' = TRUE
        /\ UNCHANGED <<buttonPresent, listeners, readyState, foundAtReady, usernamePresent,
                       stack, pending, dialog, calls>>

\* Faulty variant: the value read by the first validateForm call is reused.
ReadUsername_cached ==
    IF \E i \in 1..Len(calls) : calls[i].fn = "validateForm"
    THEN calls[CHOOSE i \in 1..Len(calls) : calls[i].fn = "validateForm"].fieldAtCall
    ELSE usernameValue

\* var username = document.getElementById('username').value;
ReadUsername == usernameValue

\* Faulty variant: the value is trimmed before the comparison.
FieldIsEmpty_trim(username) == Trim(username) = ""

\* Faulty variant: the empty field is reported only the first time.
FieldIsEmpty_once(username) ==
    /\ username = ""
    /\ ~ \E i \in 1..Len(calls) : calls[i].fn = "validateForm" /\ calls[i].issued # <<>>

\* username === ''
FieldIsEmpty(username) == username = ""

\* Faulty variant: another message text.
RequiredMessage_short == "Username required"

RequiredMessage == "Username is required!"

\* Faulty variant: a missing field is treated as an empty one.
validateForm_guarded(log) ==
    /\ UNCHANGED <<buttonPresent, listeners, readyState, foundAtReady, usernamePresent,
                   usernameValue, pending>>
    /\ LET username == IF usernamePresent THEN ReadUsername ELSE ""
       IN IF FieldIsEmpty(username)
          THEN alert(RequiredMessage, <<Frame("validateForm", username)>>, log)
          ELSE /\ calls' = Return(log, "true")
               /\ UNCHANGED <<stack, dialog>>

\* Faulty variant: the notification does not suspend validateForm, which
\* returns false while the dialog is still displayed.
validateForm_async(log) ==
    /\ UNCHANGED <<buttonPresent, listeners, readyState, foundAtReady, usernamePresent,
                   usernameValue, pending>>
    /\ IF ~usernamePresent
       THEN /\ calls' = Return(log, "TypeError")
            /\ UNCHANGED <<stack, dialog>>
       ELSE LET username == ReadUsername
            IN IF FieldIsEmpty(username)
               THEN /\ dialog' = <<RequiredMessage>>
                    /\ stack' = <<>>
                    /\ calls' = Return(SetLast(log, [Last(log) EXCEPT !.issued =
                           Append(@, Note(RequiredMessage,
                                          <<Frame("validateForm", username)>>))]),
                                       "false")
               ELSE /\ calls' = Return(log, "true")
                    /\ UNCHANGED <<stack, dialog>>

\* Variant: validateForm notifies through showAlert instead of alert.
validateForm_viaShowAlert(log) ==
    /\ UNCHANGED <<buttonPresent, listeners, readyState, foundAtReady, usernamePresent,
                   usernameValue, pending>>
    /\ IF ~usernamePresent
       THEN /\ calls' = Return(log, "TypeError")
            /\ UNCHANGED <<stack, dialog>>
       ELSE LET username == ReadUsername
            IN IF FieldIsEmpty(username)
               THEN showAlert(RequiredMessage, <<Frame("validateForm", username)>>, log)
               ELSE /\ calls' = Return(log, "true")
                    /\ UNCHANGED <<stack, dialog>>

\* validateForm() up to its return or to the alert that suspends it.  With no
\* 'username' element getElementById returns null and reading .value throws.
validateForm(log) ==
    /\ UNCHANGED <<buttonPresent, listeners, readyState, foundAtReady, usernamePresent,
                   usernameValue, pending>>
    /\ IF ~usernamePresent
       THEN /\ calls' = Return(log, "TypeError")
            /\ UNCHANGED <<stack, dialog>>
       ELSE LET username == ReadUsername
            IN IF FieldIsEmpty(username)
               THEN alert(RequiredMessage, <<Frame("validateForm", username)>>, log)
               ELSE /\ calls' = Return(log, "true")
                    /\ UNCHANGED <<stack, dialog>>

\* The page (a form's onsubmit, typically) calls validateForm().
ValidateForm ==
    /\ stack = <<>>
    /\ Len(calls) < MaxCalls
    /\ edited' = FALSE
    /\ validateForm(Append(calls, Entry("validateForm", NoLocal)))

\* The log with every presented notification acknowledged.
Acked(log) ==
    [i \in 1..Len(log) |->
        [log[i] EXCEPT !.issued =
            [j \in 1..Len(log[i].issued) |-> [log[i].issued[j] EXCEPT !.acked = TRUE]]]]

\* The user dismisses the dialog: alert() returns and its caller runs on.
Dismiss ==
    /\ dialog # <<>>
    /\ UNCHANGED <<buttonPresent, listeners, readyState, foundAtReady, usernamePresent,
                   usernameValue, edited>>
    /\ IF stack = <<>>
       THEN \* no caller is suspended on the dialog (alert always has one)
            /\ dialog' = <<>>
            /\ calls' = Acked(calls)
            /\ UNCHANGED <<stack, pending>>
       ELSE IF Last(stack).fn = "validateForm"
       THEN \* alert returned inside validateForm: return false
            /\ dialog' = <<>>
            /\ stack' = <<>>
            /\ calls' = Return(Acked(calls), "false")
            /\ UNCHANGED pending
       ELSE IF Len(stack) > 1 /\ pending > 0
       THEN \* showAlert and the click handler returned: the next listener runs
            /\ clickHandler(<<>>, Acked(calls))
            /\ pending' = pending - 1
       ELSE \* showAlert returned, and the click handler if it was the caller
            /\ dialog' = <<>>
            /\ stack' = <<>>
            /\ calls' = Return(Acked(calls), "undefined")
            /\ UNCHANGED pending

Next ==
    \/ DOMContentLoaded
    \/ InsertButton
    \/ Click
    \/ ShowAlert
    \/ EditUsername
    \/ ValidateForm
    \/ Dismiss

Spec == Init /\ [][Next]_vars

(***************************************************************************)
(* Properties.                                                             *)
(***************************************************************************)
Idx == 1..Len(calls)
VCalls == {i \in Idx : calls[i].fn = "validateForm"}
ClicksAfterReady == {i \in Idx : calls[i].fn = "click" /\ calls[i].ready}
Texts(c) == [j \in 1..Len(c.issued) |-> c.issued[j].text]

\* C1: a validateForm() call on an existing, empty 'username' field returns
\* false (never anything else; until the user dismisses the dialog the call is
\* suspended at that dialog) and issues exactly one notification, with the
\* text "Username is required!".
C1_EmptyRejected ==
    \A i \in VCalls :
        (calls[i].present /\ calls[i].fieldAtCall = "") =>
            /\ calls[i].result \in {"pending", "false"}
            /\ Texts(calls[i]) = <<"Username is required!">>
            /\ calls[i].result = "pending" =>
                   (i = Len(calls) /\ dialog = <<"Username is required!">>)

C1_Witness ==
    \E i \in VCalls :
        calls[i].present /\ calls[i].fieldAtCall = "" /\ calls[i].result = "false"

\* C2: a validateForm() call on an existing field holding any non-empty text,
\* whitespace-only text included, returns true and issues no notification.
C2_NonEmptyAccepted ==
    \A i \in VCalls :
        (calls[i].present /\ calls[i].fieldAtCall # "") =>
            (calls[i].result = "true" /\ calls[i].issued = <<>>)

C2_Witness ==
    /\ \E i \in VCalls : calls[i].fieldAtCall = " " /\ calls[i].result = "true"
    /\ \E i \in VCalls : calls[i].fieldAtCall = "alice" /\ calls[i].result = "true"

\* C3: if #myButton existed when the ready signal fired, exactly one click
\* handler is attached, and every click after the ready signal invoked showAlert
\* exactly once, with "Button clicked!" (so N clicks give N such notifications).
C3_OneHandlerPerClick ==
    (readyState # "unfired" /\ foundAtReady) =>
        /\ listeners = 1
        /\ \A i \in ClicksAfterReady :
              /\ Len(calls[i].issued) = 1
              /\ calls[i].issued[1].text = "Button clicked!"
              /\ calls[i].issued[1].via = "showAlert"
              /\ calls[i].issued[1].passed = "Button clicked!"

C3_Witness ==
    /\ readyState # "unfired" /\ foundAtReady
    /\ Cardinality(ClicksAfterReady) >= 2
    /\ \A i \in ClicksAfterReady : calls[i].result = "undefined"

\* C4: if #myButton did not exist when the ready signal fired, the setup ended
\* without an error and attached nothing, nothing is attached later (also when
\* the button appears afterwards), and no click ever issues a notification.
C4_AbsentButtonSkipped ==
    (readyState # "unfired" /\ ~foundAtReady) =>
        /\ readyState = "skipped"
        /\ listeners = 0
        /\ \A i \in ClicksAfterReady :
              calls[i].issued = <<>> /\ calls[i].result = "undefined"
        /\ \A i \in Idx : \A j \in 1..Len(calls[i].issued) :
              calls[i].issued[j].text = "Button clicked!" => calls[i].fn = "showAlert"

C4_Witness ==
    /\ readyState # "unfired" /\ ~foundAtReady
    /\ buttonPresent
    /\ ClicksAfterReady # {}

\* C5: two successive validateForm() calls with no edit of the field between
\* them return the same value and issue the same notifications, and the first
\* leaves the field as it found it.
C5_Idempotent ==
    \A i, j \in VCalls :
        (i < j /\ (\A k \in VCalls : ~(i < k /\ k < j)) /\ ~calls[j].edited) =>
            /\ Texts(calls[i]) = Texts(calls[j])
            /\ calls[j].result \in {calls[i].result, "pending"}
            /\ calls[i].fieldAtReturn = calls[i].fieldAtCall

C5_Witness ==
    \E i, j \in VCalls :
        /\ i < j /\ (\A k \in VCalls : ~(i < k /\ k < j)) /\ ~calls[j].edited
        /\ calls[i].result = "false" /\ calls[j].result = "false"

\* C6: one showAlert(message) call presents exactly one notification, whose
\* text is the string passed, unchanged, and returns undefined.
C6_PassThrough ==
    /\ \A i \in Idx : calls[i].fn = "showAlert" =>
          /\ Len(calls[i].issued) = 1
          /\ calls[i].issued[1].text = calls[i].arg
          /\ calls[i].result \in {"pending", "undefined"}
    /\ \A i \in Idx : \A j \in 1..Len(calls[i].issued) :
          calls[i].issued[j].via = "showAlert" =>
              calls[i].issued[j].text = calls[i].issued[j].passed

C6_Witness ==
    /\ \E i \in Idx : /\ calls[i].fn = "showAlert" /\ calls[i].arg = " hi "
                      /\ calls[i].result = "undefined"
    /\ \E i \in Idx : /\ calls[i].fn = "showAlert" /\ calls[i].arg = ""
                      /\ calls[i].result = "undefined"

\* C7: a validateForm() call while no 'username' element exists ends in the
\* TypeError, returns neither true nor false and issues no notification.
C7_MissingFieldThrows ==
    \A i \in VCalls :
        ~calls[i].present => (calls[i].result = "TypeError" /\ calls[i].issued = <<>>)

C7_Witness ==
    \E i \in VCalls : ~calls[i].present /\ calls[i].result = "TypeError"

\* C8: every validateForm() call on an existing field returns true exactly
\* when the field is non-empty at that call, whatever happened before, and
\* leaves the field's value as it found it.
C8_NoCache ==
    \A i \in VCalls :
        calls[i].present =>
            /\ (calls[i].result = "true") = (calls[i].fieldAtCall # "")
            /\ (calls[i].result \in {"pending", "false"}) = (calls[i].fieldAtCall = "")
            /\ calls[i].fieldAtReturn = calls[i].fieldAtCall

C8_Witness ==
    \E i, j, k \in Idx :
        /\ i < j /\ j < k
        /\ calls[i].fn = "validateForm" /\ calls[i].result = "true"
        /\ calls[j].fn = "click" /\ calls[j].issued # <<>>
        /\ calls[k].fn = "validateForm" /\ calls[k].result = "false"

AllAcked(c) == \A j \in 1..Len(c.issued) : c.issued[j].acked

\* C9: validateForm() returns false only after its notification has been
\* dismissed; while a dialog is displayed its caller is suspended on the stack,
\* is the only invocation in progress, and no invocation starts; a dialog goes
\* away only by being dismissed.
C9_Blocking ==
    /\ \A i \in Idx : calls[i].result # "pending" => AllAcked(calls[i])
    /\ \A i \in Idx : ~calls[i].overlapped
    /\ \A i \in Idx : i < Len(calls) => calls[i].result # "pending"
    /\ dialog # <<>> =>
          /\ stack # <<>>
          /\ calls # <<>> /\ Last(calls).result = "pending"
          /\ Last(calls).issued # <<>>
          /\ Last(Last(calls).issued).text = dialog[1]
          /\ ~Last(Last(calls).issued).acked
    /\ dialog = <<>> =>
          /\ stack = <<>>
          /\ \A i \in Idx : calls[i].result # "pending"

C9_Witness ==
    /\ dialog # <<>>
    /\ \E i \in VCalls : calls[i].result = "false" /\ i < Len(calls)
    /\ Last(calls).fn = "validateForm"

\* C10 as claimed: every notification the script presents, validateForm's
\* "Username is required!" included, is issued through showAlert.
C10_AllThroughShowAlert ==
    \A i \in Idx : \A j \in 1..Len(calls[i].issued) :
        calls[i].issued[j].via = "showAlert"

\* C10 as amended: validateForm issues "Username is required!" by calling
\* alert directly, with no showAlert frame; the click handler's notifications
\* are the ones that go through showAlert.
C10_ValidateFormAlertsDirectly ==
    \A i \in Idx : \A j \in 1..Len(calls[i].issued) :
        /\ calls[i].fn = "validateForm" =>
              /\ calls[i].issued[j].via = "validateForm"
              /\ calls[i].issued[j].text = "Username is required!"
        /\ calls[i].fn \in {"click", "showAlert"} =>
              calls[i].issued[j].via = "showAlert"

C10_Witness ==
    /\ \E i \in VCalls : calls[i].issued # <<>> /\ calls[i].result = "false"
    /\ \E i \in Idx : calls[i].fn = "click" /\ calls[i].issued # <<>>

====
